---------------------------- MODULE Spec2Model ----------------------------
(***************************************************************************)
(* Model of src/taller.cc: main() assembles K wireless clusters, draws one *)
(* representative per cluster, joins the representatives on a CSMA         *)
(* backbone, and runs the ns-3 engine until the stop time.                 *)
(*                                                                         *)
(* The three "simulation parameters" of lines 110-112 (clusterHeadNodes,   *)
(* infraNodes, stopTime) and the value returned by std::random_device are  *)
(* the inputs of a run; Init draws them from bounded sets that contain the *)
(* values written in the source ({4,3}, 20).                               *)
(*                                                                         *)
(* An IPv4 address is the pair (net, host) that Ipv4AddressHelper keeps:   *)
(* net is the address shifted right by the 8 host bits of the /24 mask,    *)
(* host the low 8 bits; the address is net * 256 + host.                   *)
(***************************************************************************)
EXTENDS Integers, Sequences, FiniteSets, TLC

\* ---------------------------------------------------------------- bounds
MaxInfraNodes == 4      \* largest cluster size drawn for infraNodes[i]
MaxSeed == 3            \* std::random_device results are drawn from 0..MaxSeed
ExtraClusters == 1      \* InitAny: clusterHeadNodes up to NumIpAddrs + ExtraClusters

\* ------------------------------------------------------ program constants
NumIpAddrs == 3         \* Ipv4AddressHelper ipAddrs[3]
MinStopTime == 10       \* if (stopTime < 10)
DefaultStopTime == 20   \* uint32_t stopTime = 20
HostBits == 8           \* mask "255.255.255.0": 8 host bits
WildNode == 0 - 1       \* a Ptr<Node> read from outside a container's storage

VARIABLES
    clusterHeadNodes,   \* uint32_t clusterHeadNodes
    infraNodes,         \* uint32_t infraNodes[clusterHeadNodes]
    stopTime,           \* uint32_t stopTime
    seed,               \* the value rd() returned (history)
    rng,                \* state of std::mt19937 rng
    pc,                 \* position in main
    i,                  \* loop variable of the cluster loop
    ipAddrs,            \* Ipv4AddressHelper ipAddrs[3]
    ipAddrsH,           \* Ipv4AddressHelper ipAddrsH (<<>> before SetBase)
    nodeCount,          \* number of Nodes in the NodeList
    clusters,           \* NodeContainer clusters[]
    channelCount,       \* YansWifiChannel / CsmaChannel objects created
    wifiPhy,            \* channel held by the shared YansWifiPhyHelper (0: none)
    clusterDevices,     \* NetDeviceContainer clusterDevices[]
    internet,           \* nodes with the internet stack installed
    ifaces,             \* IPv4 interfaces given an address by Assign
    mobility,           \* grid origin <<MinX, MinY>> installed per cluster
    random_integer,     \* the index drawn for each cluster (history)
    head_cluster,       \* NodeContainer head_cluster
    head_clusterDevices,\* NetDeviceContainer head_clusterDevices
    anim,               \* AnimationInterface constructed
    stopAt,             \* time of the scheduled stop event (-1: none)
    simState,           \* "idle", "running", "finished", "destroyed"
    simNow,             \* Simulator::Now in seconds
    stdout,             \* lines written to std::cout
    exitStatus,         \* process exit status (-1 while running)
    prev                \* outcomes of the earlier executions (SpecRepeat)

config == <<clusterHeadNodes, infraNodes, stopTime>>
topo == <<ipAddrs, ipAddrsH, nodeCount, clusters, channelCount, wifiPhy,
          clusterDevices, internet, ifaces, mobility, random_integer,
          head_cluster, head_clusterDevices>>
engine == <<anim, stopAt, simState, simNow>>
proc == <<stdout, exitStatus>>
vars == <<config, seed, rng, pc, i, topo, engine, proc, prev>>

\* ---------------------------------------------------------------- helpers
Range(s) == {s[k] : k \in 1..Len(s)}

\* "a.b.c.0" shifted right by HostBits
Net(a, b, c) == a * 65536 + b * 256 + c

\* Ipv4AddressHelper::SetBase (network, mask): first host address 0.0.0.1
SetBase(network) == [network |-> network, address |-> 1, base |-> 1]

\* largest host part Ipv4AddressHelper::NewAddress issues under the mask
MaxHost == 2 ^ HostBits - 2

\* mutant: Assign that does not advance the address from device to device
Assign_NoAdvance(h, devs) ==
    {[node |-> devs[k].node, kind |-> devs[k].kind,
      addr |-> [net |-> h.network, host |-> h.address]] :
        k \in 1..Len(devs)}

\* Ipv4AddressHelper::Assign (c): the k-th device of c gets the k-th address
\* from the helper's cursor
Assign(h, devs) ==
    {[node |-> devs[k].node, kind |-> devs[k].kind,
      addr |-> [net |-> h.network, host |-> h.address + k - 1]] :
        k \in 1..Len(devs)}

\* Ipv4AddressGenerator::AddAllocated: Assign aborts on an address that was
\* issued before
Collides(h, devs) ==
    \E f \in Assign(h, devs) : \E g \in ifaces : f.addr = g.addr

\* the helper after Assign (c)
Assigned(h, devs) == [h EXCEPT !.address = @ + Len(devs)]

\* Ipv4AddressHelper::NewNetwork ()
NewNetwork(h) == [h EXCEPT !.network = @ + 1, !.address = h.base]

\* std::mt19937::operator(): the generator is abstracted to a full-period
\* congruential generator on 16 states; what the model keeps of it is that the
\* next state and the output are functions of the current state alone
Mt19937(s) == (5 * s + 3) % 16

\* std::uniform_int_distribution<int> uni(a, b); uni(rng), for a <= b, from
\* the state the generator has after the draw
UniformInt(a, b, s) == a + (s % (b - a + 1))

\* the bases of lines 141-143
IpAddrsBase(k) ==
    CASE k = 1 -> Net(192, 167, 0)
      [] k = 2 -> Net(192, 168, 0)
      [] k = 3 -> Net(192, 169, 0)

\* the base of line 222
IpAddrsHBase == Net(172, 16, 0)

\* for (int i = 0; i < int(clusterHeadNodes); ++i): where control goes with i = j
LoopPc(j) == IF j < clusterHeadNodes THEN "channel" ELSE "setbaseH"

NoTopo ==
    /\ ipAddrs = <<>> /\ ipAddrsH = <<>> /\ nodeCount = 0 /\ clusters = <<>>
    /\ channelCount = 0 /\ wifiPhy = 0 /\ clusterDevices = <<>>
    /\ internet = {} /\ ifaces = {} /\ mobility = <<>>
    /\ random_integer = <<>> /\ head_cluster = <<>>
    /\ head_clusterDevices = <<>>

\* lines 97-112: the state at the top of main
Start(K, sizes, st, sd) ==
    /\ clusterHeadNodes = K /\ infraNodes = sizes /\ stopTime = st
    /\ seed = sd /\ rng = sd % 16
    /\ pc = "check" /\ i = 0
    /\ NoTopo
    /\ anim = FALSE /\ stopAt = 0 - 1 /\ simState = "idle" /\ simNow = 0
    /\ stdout = <<>> /\ exitStatus = 0 - 1

\* the stop times tried: both sides of the threshold, and the source's value
StopTimes == {0, MinStopTime - 1, MinStopTime, DefaultStopTime}

\* configurations the pools and the distribution can serve
Init ==
    /\ \E K \in 1..NumIpAddrs :
       \E sizes \in [1..K -> 1..MaxInfraNodes] :
       \E st \in StopTimes :
       \E sd \in 0..MaxSeed : Start(K, sizes, st, sd)
    /\ prev = <<>>

\* more clusters than ipAddrs has helpers, every size at least 1
InitPools ==
    /\ \E K \in 1..(NumIpAddrs + ExtraClusters) :
       \E sizes \in [1..K -> 1..MaxInfraNodes] :
       \E st \in StopTimes :
       \E sd \in 0..MaxSeed : Start(K, sizes, st, sd)
    /\ prev = <<>>

\* any configuration the three parameters can hold
InitAny ==
    /\ \E K \in 1..(NumIpAddrs + ExtraClusters) :
       \E sizes \in [1..K -> 0..MaxInfraNodes] :
       \E st \in StopTimes :
       \E sd \in 0..MaxSeed : Start(K, sizes, st, sd)
    /\ prev = <<>>

\* -------------------------------------------------------- main, in order
\* mutant: the threshold compared one too low
StopTimeTooSmall_OffByOne == stopTime < MinStopTime - 1

\* lines 122-126
StopTimeTooSmall == stopTime < MinStopTime

StopTimeCheckFail ==
    /\ pc = "check" /\ StopTimeTooSmall
    /\ stdout' = Append(stdout, "Use a simulation stop time >= 10 seconds")
    /\ exitStatus' = 1
    /\ pc' = "exited"
    /\ UNCHANGED <<config, seed, rng, i, topo, engine, prev>>

StopTimeCheckPass ==
    /\ pc = "check" /\ ~StopTimeTooSmall
    /\ pc' = "setbase"
    /\ UNCHANGED <<config, seed, rng, i, topo, engine, proc, prev>>

\* lines 140-143
IpAddrsSetBase ==
    /\ pc = "setbase"
    /\ ipAddrs' = [k \in 1..NumIpAddrs |-> SetBase(IpAddrsBase(k))]
    /\ pc' = LoopPc(0)
    /\ UNCHANGED <<config, seed, rng, i, ipAddrsH, nodeCount, clusters,
                   channelCount, wifiPhy, clusterDevices, internet, ifaces,
                   mobility, random_integer, head_cluster,
                   head_clusterDevices, engine, proc, prev>>

\* mutant: the channel set on the shared helper only while it has none
SetChannel_Once(created) == IF wifiPhy = 0 THEN created ELSE wifiPhy

\* the channel wifiPhy holds after line 162, given the one just created
SetChannel(created) == created

\* lines 161-162
CreateChannel ==
    /\ pc = "channel"
    /\ channelCount' = channelCount + 1
    /\ wifiPhy' = SetChannel(channelCount + 1)
    /\ pc' = "create"
    /\ UNCHANGED <<config, seed, rng, i, ipAddrs, ipAddrsH, nodeCount,
                   clusters, clusterDevices, internet, ifaces, mobility,
                   random_integer, head_cluster, head_clusterDevices,
                   engine, proc, prev>>

\* NodeContainer::Create (n): n new Nodes, numbered on from the NodeList
Create(n) == [k \in 1..n |-> nodeCount + k - 1]

\* line 164
CreateNodes ==
    /\ pc = "create"
    /\ clusters' = Append(clusters, Create(infraNodes[i + 1]))
    /\ nodeCount' = nodeCount + infraNodes[i + 1]
    /\ pc' = "wifi"
    /\ UNCHANGED <<config, seed, rng, i, ipAddrs, ipAddrsH, channelCount,
                   wifiPhy, clusterDevices, internet, ifaces, mobility,
                   random_integer, head_cluster, head_clusterDevices,
                   engine, proc, prev>>

\* WifiHelper::Install (phy, mac, c): one device per node of c, in order, its
\* PHY on the channel the helper holds
WifiInstall(c) ==
    [k \in 1..Len(c) |-> [node |-> c[k], kind |-> "wifi", channel |-> wifiPhy]]

\* line 166
InstallWifi ==
    /\ pc = "wifi"
    /\ clusterDevices' = Append(clusterDevices, WifiInstall(clusters[i + 1]))
    /\ pc' = "internet"
    /\ UNCHANGED <<config, seed, rng, i, ipAddrs, ipAddrsH, nodeCount,
                   clusters, channelCount, wifiPhy, internet, ifaces,
                   mobility, random_integer, head_cluster,
                   head_clusterDevices, engine, proc, prev>>

\* line 171
InstallInternet ==
    /\ pc = "internet"
    /\ internet' = internet \cup Range(clusters[i + 1])
    /\ pc' = "assign"
    /\ UNCHANGED <<config, seed, rng, i, ipAddrs, ipAddrsH, nodeCount,
                   clusters, channelCount, wifiPhy, clusterDevices, ifaces,
                   mobility, random_integer, head_cluster,
                   head_clusterDevices, engine, proc, prev>>

\* mutant: ipAddrs[0] used in every iteration
HelperIndex_First(j) == 1

\* the element of ipAddrs line 176 and line 181 use in iteration j
HelperIndex(j) == j + 1

\* line 176, ipAddrs[i] inside the array; NewAddress aborts past MaxHost and
\* on an address issued before, which does not happen with these helpers
AssignCluster ==
    /\ pc = "assign" /\ i < NumIpAddrs
    /\ LET h == ipAddrs[HelperIndex(i)]
           d == clusterDevices[i + 1]
       IN /\ h.address + Len(d) - 1 <= MaxHost /\ ~Collides(h, d)
          /\ ifaces' = ifaces \cup Assign(h, d)
          /\ ipAddrs' = [ipAddrs EXCEPT ![HelperIndex(i)] = Assigned(h, d)]
    /\ pc' = "newnet"
    /\ UNCHANGED <<config, seed, rng, i, ipAddrsH, nodeCount, clusters,
                   channelCount, wifiPhy, clusterDevices, internet, mobility,
                   random_integer, head_cluster, head_clusterDevices,
                   engine, proc, prev>>

\* line 181, ipAddrs[i] inside the array
NewNetworkCluster ==
    /\ pc = "newnet" /\ i < NumIpAddrs
    /\ ipAddrs' = [ipAddrs EXCEPT ![HelperIndex(i)] = NewNetwork(@)]
    /\ pc' = "mobility"
    /\ UNCHANGED <<config, seed, rng, i, ipAddrsH, nodeCount, clusters,
                   channelCount, wifiPhy, clusterDevices, internet, ifaces,
                   mobility, random_integer, head_cluster,
                   head_clusterDevices, engine, proc, prev>>

\* lines 183-195
InstallMobility ==
    /\ pc = "mobility"
    /\ mobility' = Append(mobility, <<(i + 1) * 50, (i + 1) * 20>>)
    /\ pc' = "select"
    /\ UNCHANGED <<config, seed, rng, i, ipAddrs, ipAddrsH, nodeCount,
                   clusters, channelCount, wifiPhy, clusterDevices, internet,
                   ifaces, random_integer, head_cluster,
                   head_clusterDevices, engine, proc, prev>>

\* mutant: the drawn index ignored, the first member taken
Get_First(c, r) == c[1]

\* NodeContainer::Get (r) on container c, r inside the container
Get(c, r) == c[r + 1]

\* mutant: the generator seeded from the random device again at every draw
SelectRepresentative_Reseeded ==
    /\ pc = "select" /\ infraNodes[i + 1] >= 1
    /\ \E sd \in 0..MaxSeed : rng' = Mt19937(sd % 16)
    /\ LET r == UniformInt(0, infraNodes[i + 1] - 1, rng')
       IN /\ random_integer' = Append(random_integer, r)
          /\ head_cluster' = Append(head_cluster, Get(clusters[i + 1], r))
    /\ i' = i + 1
    /\ pc' = LoopPc(i + 1)
    /\ UNCHANGED <<config, seed, ipAddrs, ipAddrsH, nodeCount, clusters,
                   channelCount, wifiPhy, clusterDevices, internet, ifaces,
                   mobility, head_clusterDevices, engine, proc, prev>>

\* lines 214-217 with infraNodes[i] >= 1, and the loop's ++i
SelectRepresentative ==
    /\ pc = "select" /\ infraNodes[i + 1] >= 1
    /\ rng' = Mt19937(rng)
    /\ LET r == UniformInt(0, infraNodes[i + 1] - 1, rng')
       IN /\ random_integer' = Append(random_integer, r)
          /\ head_cluster' = Append(head_cluster, Get(clusters[i + 1], r))
    /\ i' = i + 1
    /\ pc' = LoopPc(i + 1)
    /\ UNCHANGED <<config, seed, ipAddrs, ipAddrsH, nodeCount, clusters,
                   channelCount, wifiPhy, clusterDevices, internet, ifaces,
                   mobility, head_clusterDevices, engine, proc, prev>>

\* lines 219-222
IpAddrsHSetBase ==
    /\ pc = "setbaseH"
    /\ ipAddrsH' = <<SetBase(IpAddrsHBase)>>
    /\ pc' = "csma"
    /\ UNCHANGED <<config, seed, rng, i, ipAddrs, nodeCount, clusters,
                   channelCount, wifiPhy, clusterDevices, internet, ifaces,
                   mobility, random_integer, head_cluster,
                   head_clusterDevices, engine, proc, prev>>

\* mutant: the backbone installed over the first cluster instead of over c
CsmaInstall_FirstCluster(c) ==
    [k \in 1..Len(clusters[1]) |->
        [node |-> clusters[1][k], kind |-> "csma",
         channel |-> channelCount + 1]]

\* CsmaHelper::Install (c): one new channel, one device per node of c, in order
CsmaInstall(c) ==
    [k \in 1..Len(c) |->
        [node |-> c[k], kind |-> "csma", channel |-> channelCount + 1]]

\* lines 224-228
InstallCsma ==
    /\ pc = "csma"
    /\ channelCount' = channelCount + 1
    /\ head_clusterDevices' = CsmaInstall(head_cluster)
    /\ pc' = "assignH"
    /\ UNCHANGED <<config, seed, rng, i, ipAddrs, ipAddrsH, nodeCount,
                   clusters, wifiPhy, clusterDevices, internet, ifaces,
                   mobility, random_integer, head_cluster, engine, proc, prev>>

\* line 233
AssignBackbone ==
    /\ pc = "assignH"
    /\ LET h == ipAddrsH[1]
       IN /\ h.address + Len(head_clusterDevices) - 1 <= MaxHost
          /\ ifaces' = ifaces \cup Assign(h, head_clusterDevices)
          /\ ipAddrsH' = <<Assigned(h, head_clusterDevices)>>
    /\ pc' = "newnetH"
    /\ UNCHANGED <<config, seed, rng, i, ipAddrs, nodeCount, clusters,
                   channelCount, wifiPhy, clusterDevices, internet, mobility,
                   random_integer, head_cluster, head_clusterDevices,
                   engine, proc, prev>>

\* line 238
NewNetworkBackbone ==
    /\ pc = "newnetH"
    /\ ipAddrsH' = <<NewNetwork(ipAddrsH[1])>>
    /\ pc' = "anim"
    /\ UNCHANGED <<config, seed, rng, i, ipAddrs, nodeCount, clusters,
                   channelCount, wifiPhy, clusterDevices, internet, ifaces,
                   mobility, random_integer, head_cluster,
                   head_clusterDevices, engine, proc, prev>>

\* line 312
CreateAnimation ==
    /\ pc = "anim"
    /\ anim' = TRUE
    /\ pc' = "stop"
    /\ UNCHANGED <<config, seed, rng, i, topo, stopAt, simState, simNow,
                   proc, prev>>

\* mutant: no stop event scheduled
SimulatorStop_Missing ==
    /\ pc = "stop"
    /\ pc' = "run"
    /\ UNCHANGED <<config, seed, rng, i, topo, engine, proc, prev>>

\* line 321
SimulatorStop ==
    /\ pc = "stop"
    /\ stopAt' = stopTime
    /\ pc' = "run"
    /\ UNCHANGED <<config, seed, rng, i, topo, anim, simState, simNow,
                   proc, prev>>

\* line 322: the engine takes control
SimulatorRun ==
    /\ pc = "run"
    /\ simState' = "running"
    /\ pc' = "running"
    /\ UNCHANGED <<config, seed, rng, i, topo, anim, stopAt, simNow,
                   proc, prev>>

\* line 322: the stop event fires and Run returns
SimulatorRunReturns ==
    /\ pc = "running" /\ stopAt >= 0
    /\ simNow' = stopAt
    /\ simState' = "finished"
    /\ pc' = "destroy"
    /\ UNCHANGED <<config, seed, rng, i, topo, anim, stopAt, proc, prev>>

\* line 323
SimulatorDestroy ==
    /\ pc = "destroy"
    /\ simState' = "destroyed"
    /\ pc' = "return"
    /\ UNCHANGED <<config, seed, rng, i, topo, anim, stopAt, simNow,
                   proc, prev>>

\* line 324: main ends without a return statement
MainReturns ==
    /\ pc = "return"
    /\ exitStatus' = 0
    /\ pc' = "exited"
    /\ UNCHANGED <<config, seed, rng, i, topo, engine, stdout, prev>>

Next ==
    \/ StopTimeCheckFail \/ StopTimeCheckPass \/ IpAddrsSetBase
    \/ CreateChannel \/ CreateNodes \/ InstallWifi \/ InstallInternet
    \/ AssignCluster \/ NewNetworkCluster \/ InstallMobility
    \/ SelectRepresentative
    \/ IpAddrsHSetBase \/ InstallCsma \/ AssignBackbone \/ NewNetworkBackbone
    \/ CreateAnimation \/ SimulatorStop \/ SimulatorRun
    \/ SimulatorRunReturns \/ SimulatorDestroy \/ MainReturns

Spec == Init /\ [][Next]_vars

\* the run is never abandoned part-way: main, then the engine, run on
SpecFair == Spec /\ WF_vars(Next)

\* ------------------------------------------- the program executed again
\* what an execution leaves behind for comparison
Outcome == [seed |-> seed, stopTime |-> stopTime, exitStatus |-> exitStatus,
            topo |-> topo]

\* line 95: main entered a second time, with the same clusterHeadNodes and
\* infraNodes, a new result of the random device, and any stop time
Rerun ==
    /\ pc = "exited" /\ prev = <<>>
    /\ prev' = <<Outcome>>
    /\ \E st \in StopTimes : stopTime' = st
    /\ \E sd \in 0..MaxSeed : seed' = sd /\ rng' = sd % 16
    /\ pc' = "check" /\ i' = 0
    /\ ipAddrs' = <<>> /\ ipAddrsH' = <<>> /\ nodeCount' = 0
    /\ clusters' = <<>> /\ channelCount' = 0 /\ wifiPhy' = 0
    /\ clusterDevices' = <<>> /\ internet' = {} /\ ifaces' = {}
    /\ mobility' = <<>> /\ random_integer' = <<>> /\ head_cluster' = <<>>
    /\ head_clusterDevices' = <<>>
    /\ anim' = FALSE /\ stopAt' = 0 - 1 /\ simState' = "idle" /\ simNow' = 0
    /\ stdout' = <<>> /\ exitStatus' = 0 - 1
    /\ UNCHANGED <<clusterHeadNodes, infraNodes>>

NextRepeat == Next \/ Rerun

SpecRepeat == Init /\ [][NextRepeat]_vars

\* --------------------- configurations outside what the code provides for
\* the process killed by a signal (SIGSEGV, SIGABRT)
Crash ==
    /\ pc' = "crashed"
    /\ exitStatus' = 139
    /\ UNCHANGED <<config, seed, rng, i, topo, engine, stdout, prev>>

\* what a read of ipAddrs[j], j >= 3, can find in the memory after the array:
\* a network of the pools, or one of none, at the first host address
StrayHelpers == {SetBase(n) : n \in {IpAddrsBase(1), IpAddrsHBase, 0}}

\* line 176 with i >= 3: ipAddrs[i] is outside the array (undefined
\* behaviour); the process dies, or Assign works on whatever is there and
\* aborts if it issues an address a second time
AssignClusterOutOfBounds ==
    /\ pc = "assign" /\ i >= NumIpAddrs
    /\ \/ Crash
       \/ \E h \in StrayHelpers :
            LET d == clusterDevices[i + 1]
            IN IF Collides(h, d)
               THEN Crash
               ELSE /\ ifaces' = ifaces \cup Assign(h, d)
                    /\ pc' = "newnet"
                    /\ UNCHANGED <<config, seed, rng, i, ipAddrs, ipAddrsH,
                                   nodeCount, clusters, channelCount, wifiPhy,
                                   clusterDevices, internet, mobility,
                                   random_integer, head_cluster,
                                   head_clusterDevices, engine, proc, prev>>

\* line 181 with i >= 3: a write outside the array (undefined behaviour)
NewNetworkOutOfBounds ==
    /\ pc = "newnet" /\ i >= NumIpAddrs
    /\ \/ Crash
       \/ /\ pc' = "mobility"
          /\ UNCHANGED <<config, seed, rng, i, topo, engine, proc, prev>>

\* lines 214-217 with infraNodes[i] = 0: uniform_int_distribution (0, -1) and
\* Get on an empty container (undefined behaviour both); the process dies, or
\* some index is drawn and a pointer from outside the container is added
SelectRepresentativeEmpty ==
    /\ pc = "select" /\ infraNodes[i + 1] = 0
    /\ \/ Crash
       \/ /\ rng' = Mt19937(rng)
          /\ \E r \in {0 - 1, 0} : random_integer' = Append(random_integer, r)
          /\ head_cluster' = Append(head_cluster, WildNode)
          /\ i' = i + 1
          /\ pc' = LoopPc(i + 1)
          /\ UNCHANGED <<config, seed, ipAddrs, ipAddrsH, nodeCount,
                         clusters, channelCount, wifiPhy, clusterDevices,
                         internet, ifaces, mobility, head_clusterDevices,
                         engine, proc, prev>>

\* lines 228 and 233 reach through the stray pointer: the process may die
UseOfStrayNode ==
    /\ pc \in {"csma", "assignH"} /\ WildNode \in Range(head_cluster)
    /\ Crash

NextPools == Next \/ AssignClusterOutOfBounds \/ NewNetworkOutOfBounds

SpecPools == InitPools /\ [][NextPools]_vars

NextAny == NextPools \/ SelectRepresentativeEmpty \/ UseOfStrayNode

SpecAny == InitAny /\ [][NextAny]_vars

\* ------------------------------------------------------------ properties
\* clusters whose loop iteration is complete are 1..i
Built == 1..i

AfterCsma == {"assignH", "newnetH", "anim", "stop", "run", "running",
              "destroy", "return"}
AfterBackbone == AfterCsma \ {"assignH"}

\* the backbone interconnect is installed
BackboneInstalled == pc \in AfterCsma \/ (pc = "exited" /\ exitStatus = 0)

\* the backbone is installed and addressed: assembly is complete
BackboneAssembled == pc \in AfterBackbone \/ (pc = "exited" /\ exitStatus = 0)

IfacesOf(n) == {f \in ifaces : f.node = n}
\* the wireless devices on node n, as positions <<j, k>> in clusterDevices
WifiDevicesOf(n) ==
    {p \in UNION {{<<j, k>> : k \in 1..Len(clusterDevices[j])} :
                     j \in 1..Len(clusterDevices)} :
        clusterDevices[p[1]][p[2]].node = n}

\* the backbone devices on node n, as positions in head_clusterDevices
CsmaDevicesOf(n) ==
    {k \in 1..Len(head_clusterDevices) : head_clusterDevices[k].node = n}

\* the /24 networks the wireless interfaces of cluster j are addressed in
ClusterNets(j) ==
    {f.addr.net : f \in {g \in ifaces : g.kind = "wifi"
                                        /\ g.node \in Range(clusters[j])}}

\* the /24 networks the backbone interfaces are addressed in
BackboneNets == {f.addr.net : f \in {g \in ifaces : g.kind = "csma"}}

RECURSIVE SumSizes(_)
SumSizes(k) == IF k = 0 THEN 0 ELSE infraNodes[k] + SumSizes(k - 1)

\* C1: once a cluster is built it is addressed in exactly one /24 network,
\* no two clusters share a network, and the backbone's network is none of the
\* clusters'; for two clusters the networks are 192.167.0.0/24 and
\* 192.168.0.0/24, and the backbone's is 172.16.0.0/24.
C1_SubnetsDisjoint ==
    /\ \A j \in Built : Cardinality(ClusterNets(j)) = 1
    /\ \A j, k \in Built : j # k => ClusterNets(j) \cap ClusterNets(k) = {}
    /\ \A j \in Built : BackboneNets \cap ClusterNets(j) = {}
    /\ BackboneAssembled =>
          /\ BackboneNets = {Net(172, 16, 0)}
          /\ clusterHeadNodes = 2 =>
                /\ ClusterNets(1) = {Net(192, 167, 0)}
                /\ ClusterNets(2) = {Net(192, 168, 0)}

C1_Witness ==
    /\ BackboneAssembled /\ clusterHeadNodes = NumIpAddrs
    /\ \A j \in 1..NumIpAddrs : ClusterNets(j) # {}
    /\ BackboneNets # {}

\* C2: with stopTime < 10 nothing is ever created (no node, channel, device,
\* address helper, address, representative, animation, stop event), the
\* engine stays idle, and the process ends with status 1 having printed the
\* minimum-stop-time line and nothing else.
C2_StopTimeFailsFast ==
    stopTime < MinStopTime =>
        /\ NoTopo
        /\ ~anim /\ stopAt < 0 /\ simState = "idle"
        /\ pc \in {"check", "exited"}
        /\ pc = "exited" =>
              /\ exitStatus = 1
              /\ stdout = <<"Use a simulation stop time >= 10 seconds">>

C2_Witness ==
    stopTime = MinStopTime - 1 /\ pc = "exited" /\ exitStatus = 1

\* C3: once the backbone is installed it has exactly clusterHeadNodes
\* devices; the j-th is on the member of cluster j at the index drawn for
\* cluster j, that index is within 0..size-1, and cluster j has no other
\* member on the backbone.
C3_BackboneRepresentatives ==
    BackboneInstalled =>
        /\ Len(head_clusterDevices) = clusterHeadNodes
        /\ Len(random_integer) = clusterHeadNodes
        /\ \A j \in 1..clusterHeadNodes :
              /\ random_integer[j] \in 0..(infraNodes[j] - 1)
              /\ head_clusterDevices[j].node
                    = clusters[j][random_integer[j] + 1]
              /\ head_clusterDevices[j].kind = "csma"
              /\ head_clusterDevices[j].channel = head_clusterDevices[1].channel
              /\ Cardinality({k \in 1..Len(head_clusterDevices) :
                    head_clusterDevices[k].node \in Range(clusters[j])}) = 1

C3_Witness ==
    /\ BackboneInstalled /\ clusterHeadNodes = NumIpAddrs
    /\ infraNodes[1] = 1 /\ random_integer[1] = 0
    /\ infraNodes[2] = MaxInfraNodes /\ random_integer[2] = MaxInfraNodes - 1
    /\ random_integer[3] = 0 /\ infraNodes[3] > 1

C5_ClusterNodesAndAddresses ==
    /\ \A j \in Built :
          /\ Len(clusters[j]) = infraNodes[j]
          /\ Cardinality(Range(clusters[j])) = infraNodes[j]
          /\ \A k \in 1..Len(clusters) :
                k # j => Range(clusters[j]) \cap Range(clusters[k]) = {}
          /\ \A n \in Range(clusters[j]) :
                /\ Cardinality({f \in IfacesOf(n) : f.kind = "wifi"}) = 1
                /\ \A f \in IfacesOf(n) : f.kind = "wifi" =>
                      /\ f.addr.net = IpAddrsBase(j)
                      /\ f.addr.host \in 1..MaxHost
                /\ ~BackboneAssembled => Cardinality(IfacesOf(n)) = 1
          /\ Cardinality({f.addr : f \in {g \in ifaces : g.kind = "wifi" /\
                g.node \in Range(clusters[j])}}) = infraNodes[j]
    /\ i = clusterHeadNodes =>
          /\ nodeCount = SumSizes(clusterHeadNodes)
          /\ infraNodes = <<4, 3>> => nodeCount = 7

C5_Witness ==
    /\ infraNodes = <<4, 3>> /\ i = clusterHeadNodes /\ nodeCount = 7
    /\ Cardinality(ifaces) = 7

\* C10: the wireless devices of the j-th cluster are all on the j-th channel
\* created, the one created in that cluster's iteration, so no channel
\* carries devices of two clusters; the backbone's channel is another one.
C10_PrivateChannels ==
    /\ \A j \in 1..Len(clusterDevices) :
          /\ Len(clusterDevices[j]) = infraNodes[j]
          /\ \A k \in 1..Len(clusterDevices[j]) :
                /\ clusterDevices[j][k].channel = j
                /\ clusterDevices[j][k].node = clusters[j][k]
    /\ \A j, k \in 1..Len(clusterDevices) : j # k =>
          {d.channel : d \in Range(clusterDevices[j])}
             \cap {d.channel : d \in Range(clusterDevices[k])} = {}
    /\ \A d \in Range(head_clusterDevices) :
          d.channel = clusterHeadNodes + 1

C10_Witness ==
    /\ Len(clusterDevices) = NumIpAddrs
    /\ \A j \in 1..NumIpAddrs : \E d \in Range(clusterDevices[j]) : d.channel = j

\* C6: a cluster size of 0 is rejected before anything is created: no node,
\* channel, device or address exists, no index is drawn for
\* that cluster, and a process that has ended printed a diagnostic and ended
\* with a non-zero status.
C6_ZeroSizeRejected ==
    (\E j \in 1..clusterHeadNodes : infraNodes[j] = 0) =>
        /\ nodeCount = 0 /\ channelCount = 0 /\ ifaces = {}
        /\ clusterDevices = <<>> /\ head_clusterDevices = <<>>
        /\ \A j \in 1..clusterHeadNodes :
              infraNodes[j] = 0 => Len(random_integer) < j
        /\ pc \in {"exited", "crashed"} =>
              exitStatus # 0 /\ stdout # <<>>

\* C7: an execution that assembled the topology with the same clusters and
\* the same random-device result as an earlier one ends with the same
\* topology: the same drawn indices, representatives, nodes, devices,
\* channels, addresses and address helpers, whatever the stop times were.
C7_SameSeedSameTopology ==
    \A k \in 1..Len(prev) :
        (/\ pc = "exited" /\ exitStatus = 0
         /\ prev[k].exitStatus = 0 /\ prev[k].seed = seed)
        => prev[k].topo = topo

C7_Witness ==
    /\ pc = "exited" /\ exitStatus = 0 /\ Len(prev) = 1
    /\ prev[1].exitStatus = 0 /\ prev[1].seed = seed
    /\ prev[1].stopTime # stopTime
    /\ clusterHeadNodes = 2 /\ infraNodes = <<4, 3>>
    /\ prev[1].topo = topo

\* C8 (order): the stop event exists only once every cluster is built, every
\* representative drawn and the backbone installed and addressed; the engine
\* leaves "idle" only with the stop event scheduled at stopTime; it is
\* destroyed only after it ran to stopTime; exit status 0 only after that.
C8_Order ==
    /\ stopAt >= 0 =>
          /\ stopAt = stopTime
          /\ i = clusterHeadNodes /\ Len(clusters) = clusterHeadNodes
          /\ Len(random_integer) = clusterHeadNodes
          /\ Len(head_clusterDevices) = clusterHeadNodes
          /\ Cardinality({f \in ifaces : f.kind = "csma"}) = clusterHeadNodes
    /\ simState # "idle" => stopAt = stopTime
    /\ simState \in {"finished", "destroyed"} => simNow = stopTime
    /\ exitStatus = 0 => simState = "destroyed"

\* C8: with stopTime >= 10 the order above holds in every state, no step
\* taken once the engine has left "idle" changes a node, device, channel,
\* address, address helper or representative, and the process ends with exit
\* status 0 and the engine destroyed.
C8_OrderedRun ==
    /\ [](stopTime >= MinStopTime => C8_Order)
    /\ [][simState # "idle" => UNCHANGED topo]_vars
    /\ (stopTime >= MinStopTime)
          ~> (pc = "exited" /\ exitStatus = 0 /\ simState = "destroyed")

C8_Witness ==
    /\ stopTime = DefaultStopTime /\ infraNodes = <<4, 3>>
    /\ pc = "exited" /\ exitStatus = 0 /\ simState = "destroyed"
    /\ simNow = DefaultStopTime /\ nodeCount = 7

\* C9: with more clusters than ipAddrs has helpers, no cluster past the last
\* helper is ever given an address, and the process never ends with status 0.
C9_PoolExhaustionAborts ==
    clusterHeadNodes > NumIpAddrs =>
        /\ \A f \in ifaces : \A j \in 1..Len(clusters) :
              (f.kind = "wifi" /\ f.node \in Range(clusters[j]))
                 => j <= NumIpAddrs
        /\ ~(pc = "exited" /\ exitStatus = 0)
=============================================================================
